---- MODULE Spec2Model ----
(***************************************************************************)
(* DataForge stock dashboard (app.py): the script that Streamlit runs top  *)
(* to bottom on every interaction.  It loads one stock and the sector      *)
(* basket through two memoized loaders, derives the KPIs of the main       *)
(* stock inside a try/except, then derives the weighted portfolio series   *)
(* at module level.                                                        *)
(*                                                                         *)
(* Numbers.  A float is modelled by the exact value it stands for: a pair  *)
(* <<n, d>> with d > 0 and gcd(n, d) = 1 is the rational n/d, <<1, 0>> is  *)
(* +inf, <<-1, 0>> is -inf and <<0, 0>> is NaN (which is also how pandas   *)
(* stores a missing cell).  The operators follow IEEE-754 for the special  *)
(* values; binary rounding and the sign of zero are not modelled.          *)
(***************************************************************************)
EXTENDS Integers, Sequences, FiniteSets, TLC

\* ------------------------------------------------------------------ bounds
MaxRows == 3

MaxRuns == 2

MaxAdvance == 1

\* ------------------------------------------------------ float arithmetic
NaN == <<0, 0>>
PosInf == <<1, 0>>
NegInf == <<-1, 0>>
Zero == <<0, 1>>
One == <<1, 1>>

Abs(n) == IF n < 0 THEN -n ELSE n

Sign(n) == IF n > 0 THEN 1 ELSE IF n < 0 THEN -1 ELSE 0

RECURSIVE GCD(_, _)
GCD(a, b) == IF b = 0 THEN a ELSE GCD(b, a % b)

\* n/d in lowest terms, with the IEEE special values for d = 0
Norm(n, d) ==
    IF d = 0 THEN <<Sign(n), 0>>
    ELSE LET g == GCD(Abs(n), Abs(d))
             s == Sign(d)
         IN  <<(s * n) \div g, (s * d) \div g>>

Rat(n) == <<n, 1>>

IsNaN(x) == x = NaN

IsInf(x) == x = PosInf \/ x = NegInf

IsFinite(x) == x[2] > 0

Add(x, y) ==
    IF IsNaN(x) \/ IsNaN(y) THEN NaN
    ELSE IF IsInf(x) /\ IsInf(y) THEN (IF x = y THEN x ELSE NaN)
    ELSE IF IsInf(x) THEN x
    ELSE IF IsInf(y) THEN y
    ELSE Norm(x[1] * y[2] + y[1] * x[2], x[2] * y[2])

Neg(x) == <<-x[1], x[2]>>

Sub(x, y) == Add(x, Neg(y))

\* inf * 0 = NaN falls out of Norm(0, 0)
Mul(x, y) == Norm(x[1] * y[1], x[2] * y[2])

Recip(y) ==
    IF IsNaN(y) THEN NaN
    ELSE IF IsInf(y) THEN Zero
    ELSE Norm(y[2], y[1])

\* numpy float64 division: x/0 is +-inf, 0/0 is NaN, no exception is raised
Div(x, y) == Mul(x, Recip(y))

\* ------------------------------------------------------- program constants
semiconductor_tickers == <<"NVDA", "INTC", "AMD", "TSM", "MU">>

\* np.array([0.1, 0.2, 0.25, 0.25, 0.2])
weights == <<Norm(1, 10), Norm(2, 10), Norm(25, 100), Norm(25, 100), Norm(2, 10)>>

TradingDays == 252

Percent == 100

SliderMin == 1

SliderMax == 24

SliderDefault == 6

\* ------------------------------------------------- pandas / numpy helpers
\* A Series is [index |-> row labels, values |-> floats]; a row label is the
\* position of the date in the fetched table.  A DataFrame of one price
\* field is a sequence of columns over the same dates.
Series(idx, vals) == [index |-> idx, values |-> vals]

RangeIndex(n) == [t \in 1..n |-> t]

RECURSIVE SumSeq(_)
SumSeq(s) == IF s = <<>> THEN Zero ELSE Add(SumSeq(SubSeq(s, 1, Len(s) - 1)), s[Len(s)])

\* Series.ffill(): a missing cell takes the last value seen before it
RECURSIVE ffill(_)
ffill(v) ==
    IF v = <<>> THEN <<>>
    ELSE LET n == Len(v)
             head == ffill(SubSeq(v, 1, n - 1))
         IN  Append(head, IF IsNaN(v[n]) /\ n > 1 THEN head[n - 1] ELSE v[n])

\* pct_change without filling: data / data.shift(1) - 1
PctRaw(v) ==
    [t \in 1..Len(v) |-> IF t = 1 THEN NaN ELSE Sub(Div(v[t], v[t - 1]), One)]

\* Series.pct_change(): pandas before 3.0 pads missing cells first
\* (fill_method='pad'), pandas 3.0 does not
pct_change(v, pad) == PctRaw(IF pad THEN ffill(v) ELSE v)

\* Series.dropna(): the rows whose value is NaN are removed, labels kept
dropna(s) ==
    LET rows == [t \in 1..Len(s.values) |-> <<s.index[t], s.values[t]>>]
        kept == SelectSeq(rows, LAMBDA r : ~IsNaN(r[2]))
    IN  Series([t \in 1..Len(kept) |-> kept[t][1]], [t \in 1..Len(kept) |-> kept[t][2]])

\* .fillna(0)
fillna(v) == [t \in 1..Len(v) |-> IF IsNaN(v[t]) THEN Zero ELSE v[t]]

NonNaN(v) == SelectSeq(v, LAMBDA x : ~IsNaN(x))

\* Series.std() squared: the sample variance (ddof = 1) over the non-missing
\* values; NaN when there are fewer than two of them
var(v) ==
    LET x == NonNaN(v)
        count == Len(x)
        avg == Div(SumSeq(x), Rat(count))
        sqr == SumSeq([t \in 1..count |-> Mul(Sub(avg, x[t]), Sub(avg, x[t]))])
    IN  IF count <= 1 THEN NaN ELSE Div(sqr, Rat(count - 1))

\* DataFrame * ndarray: column j is scaled by w[j] (by position)
FrameTimes(frame, w) ==
    [j \in 1..Len(frame) |-> [t \in 1..Len(frame[j]) |-> Mul(frame[j][t], w[j])]]

\* DataFrame.sum(axis=1): per date, the sum over the columns, NaN skipped
RowSum(frame) ==
    [t \in 1..Len(frame[1]) |->
        SumSeq(NonNaN([j \in 1..Len(frame) |-> frame[j][t]]))]

\* Series.cumprod(): NaN entries count as 1 in the running product and stay
\* NaN in the result
RECURSIVE cumprod(_)
cumprod(v) ==
    IF v = <<>> THEN <<>>
    ELSE LET n == Len(v)
             head == cumprod(SubSeq(v, 1, n - 1))
             ones == [t \in 1..n |-> IF IsNaN(v[t]) THEN One ELSE v[t]]
             RECURSIVE run(_)
             run(t) == IF t = 0 THEN One ELSE Mul(run(t - 1), ones[t])
         IN  Append(head, IF IsNaN(v[n]) THEN NaN ELSE run(n))

\* f"{x:.2f}": the text of a float to two decimals (round half to even)
Fmt2(x) ==
    IF IsNaN(x) THEN [text |-> "nan", cents |-> 0]
    ELSE IF x = PosInf THEN [text |-> "inf", cents |-> 0]
    ELSE IF x = NegInf THEN [text |-> "-inf", cents |-> 0]
    ELSE LET n == x[1] * 100
             q == n \div x[2]
             r == n % x[2]
             up == 2 * r > x[2] \/ (2 * r = x[2] /\ q % 2 = 1)
         IN  [text |-> "num", cents |-> IF up THEN q + 1 ELSE q]

\* ------------------------------------------------------------------ state
VARIABLES
    today,              \* date.today(), as <<month number, day of month>>
    pandas_pad,         \* the installed pandas pads in pct_change (before 3.0)
    ticker, months,     \* the sidebar widgets
    stock_cache,        \* st.cache_data memo of load_stock, keyed by arguments
    sector_cache,       \* st.cache_data memo of load_sector
    pc,                 \* "main", "portfolio" or "done"
    runs,               \* script runs of this session so far
    stock_data, adj_close, daily_returns,
    latest_price, total_return, volatility_sq,
    metrics,            \* the st.metric widgets on the page
    notice,             \* st.error notice on the page
    caught,             \* class of the exception the except clause caught
    sector_data, adj_close_sector, sector_returns,
    portfolio_returns, cumulative_returns,
    charts,             \* titles of the portfolio charts on the page
    unhandled           \* class of the exception that left the script

session == <<today, pandas_pad, ticker, months, stock_cache, sector_cache, pc, runs>>

mainVars == <<stock_data, adj_close, daily_returns, latest_price, total_return,
              volatility_sq, metrics, notice, caught>>

portfolioVars == <<sector_data, adj_close_sector, sector_returns,
                   portfolio_returns, cumulative_returns, charts, unhandled>>

vars == <<session, mainVars, portfolioVars>>

\* ------------------------------------------------------------- the upstream
\* start=date.today() - relativedelta(months=months), end=date.today()
Window(day, m) == <<<<day[1] - m, day[2]>>, day>>

\* What yf.download hands back once the loaders have flattened its columns:
\* adj says whether an 'Adj Close' field exists, price holds one column per
\* 'Adj Close' column and tickers the instrument each column came from (the
\* flattened labels no longer say).
Table(w, a, tk, pr) == [window |-> w, adj |-> a, tickers |-> tk, price |-> pr]

NoTable == Table(<<<<0, 0>>, <<0, 0>>>>, FALSE, <<>>, <<>>)

EmptySeries == Series(<<>>, <<>>)

AlphabeticalOrder == <<"AMD", "INTC", "MU", "NVDA", "TSM">>

PriceCells == {NaN, Rat(1), Rat(2)}

Columns(cells, n) == [1..n -> cells]

Flat(n) == [t \in 1..n |-> Rat(1)]

\* Price columns the single-stock download may return.  level 2: every
\* series of up to MaxRows quotes, a quote of 0 included; lower levels: a
\* few fixed series.
StockColumns(level) ==
    IF level = 2
    THEN UNION {Columns(PriceCells \cup {Zero}, n) : n \in 0..MaxRows}
            \cup {<<Rat(100), Rat(110), Rat(99)>>}
    ELSE IF level = 1 THEN {<<>>, <<Rat(2), Rat(1), Rat(2)>>}
    ELSE {<<Rat(1), Rat(2)>>}

StockTables(w, tk, level) ==
    {Table(w, FALSE, <<>>, <<>>)}
        \cup {Table(w, TRUE, <<tk>>, <<c>>) : c \in StockColumns(level)}

\* How sector tables vary: <<V, cells>> lets the columns at the positions V
\* carry any series over cells; the other columns are flat.
VariedSets(level) ==
    IF level = 2
    THEN {<<{}, {}>>, <<{1}, PriceCells>>, <<{4}, PriceCells>>, <<{2, 5}, {NaN, Rat(2)}>>}
    ELSE IF level = 1 THEN {<<{}, {}>>, <<{1}, {Rat(1), Rat(2)}>>}
    ELSE {<<{}, {}>>}

SectorPrices(level) ==
    UNION {UNION {{[j \in 1..5 |-> IF j \in V[1] THEN f[j] ELSE Flat(n)] :
                        f \in [V[1] -> Columns(V[2], n)]} :
                  V \in VariedSets(level)} :
           n \in (IF level = 0 THEN {2} ELSE 0..MaxRows)}

\* Column counts other than five: upstream dropped instruments or added one
OddTables(w, level) ==
    {Table(w, TRUE, tk, [j \in 1..Len(tk) |-> Flat(n)]) :
        tk \in {<<"NVDA">>, <<"AMD", "INTC", "MU", "NVDA">>,
                AlphabeticalOrder \o <<"SOXX">>},
        n \in (IF level = 0 THEN {2} ELSE {0, 2})}

SectorTables(w, level) ==
    {Table(w, FALSE, <<>>, <<>>)}
        \cup {Table(w, TRUE, o, p) :
                o \in {semiconductor_tickers, AlphabeticalOrder},
                p \in SectorPrices(level)}
        \cup OddTables(w, level)

\* ------------------------------------------------------------- the loaders
MonthChoices == {SliderMin, SliderDefault, SliderMax}

Put(cache, key, t) ==
    [k \in DOMAIN cache \cup {key} |-> IF k = key THEN t ELSE cache[k]]

\* @st.cache_data: a call whose arguments were seen before returns the stored
\* table and does not run the body; otherwise the body runs, and its result
\* is stored unless yf.download raised.
Cached(cache, key, fresh) ==
    IF key \in DOMAIN cache
    THEN {[raised |-> FALSE, data |-> cache[key], cache |-> cache]}
    ELSE {[raised |-> TRUE, data |-> NoTable, cache |-> cache]}
            \cup {[raised |-> FALSE, data |-> t, cache |-> Put(cache, key, t)] :
                    t \in fresh}

load_stock(level) ==
    Cached(stock_cache, <<ticker, months>>,
           StockTables(Window(today, months), ticker, level))

load_sector(level) ==
    Cached(sector_cache, <<semiconductor_tickers, months>>,
           SectorTables(Window(today, months), level))

\* --------------------------------------------------------- main stock KPIs
\* Faulty variant of daily_returns_of: the first date filled with 0, not dropped
daily_returns_filled(adj, pad) == Series(adj.index, fillna(pct_change(adj.values, pad)))

\* adj_close.pct_change().dropna()
daily_returns_of(adj, pad) == dropna(Series(adj.index, pct_change(adj.values, pad)))

\* (adj_close.iloc[-1] / adj_close.iloc[0] - 1) * 100
total_return_of(adj) ==
    Mul(Sub(Div(adj.values[Len(adj.values)], adj.values[1]), One), Rat(Percent))

\* (daily_returns.std() * np.sqrt(252)) squared: the root is irrational, so
\* the model carries the square of the volatility
volatility_sq_of(dr) == Mul(var(dr.values), Rat(TradingDays))

\* the text of f"{volatility:.2f}" is "nan", "inf" or the two-decimal
\* rendering of the root of square
FmtRoot(sq) ==
    [text |-> IF IsNaN(sq) THEN "nan" ELSE IF IsInf(sq) THEN "inf" ELSE "num",
     square |-> sq]

MainUnset ==
    [stock_data |-> NoTable, adj_close |-> EmptySeries,
     daily_returns |-> EmptySeries, latest_price |-> NaN, total_return |-> NaN,
     volatility_sq |-> NaN, metrics |-> <<>>, notice |-> FALSE, caught |-> "none"]

\* The try block, up to the exception that ends it (if any); the except
\* clause shows the notice.  Names bound before the exception stay bound.
MainRun(r, pad) ==
    IF r.raised
    THEN [MainUnset EXCEPT !.notice = TRUE, !.caught = "FetchError"]
    ELSE IF ~r.data.adj
    THEN [MainUnset EXCEPT !.stock_data = r.data,
                           !.notice = TRUE, !.caught = "KeyError"]
    ELSE LET col == r.data.price[1]
             adj == Series(RangeIndex(Len(col)), col)
             dr == daily_returns_of(adj, pad)
             bound == [MainUnset EXCEPT !.stock_data = r.data, !.adj_close = adj,
                                        !.daily_returns = dr]
         IN  IF Len(col) = 0
             THEN [bound EXCEPT !.notice = TRUE, !.caught = "IndexError"]
             ELSE LET lp == col[Len(col)]
                      tr == total_return_of(adj)
                      vol == volatility_sq_of(dr)
                  IN  [bound EXCEPT
                         !.latest_price = lp, !.total_return = tr,
                         !.volatility_sq = vol,
                         !.metrics = <<[label |-> "Latest Price ($)", value |-> Fmt2(lp)],
                                       [label |-> "Total Return (%)", value |-> Fmt2(tr)],
                                       [label |-> "Annual Volatility", value |-> FmtRoot(vol)]>>]

MainStock(level) ==
    /\ pc = "main"
    /\ \E r \in load_stock(level) :
          LET o == MainRun(r, pandas_pad)
          IN  /\ stock_cache' = r.cache
              /\ stock_data' = o.stock_data
              /\ adj_close' = o.adj_close
              /\ daily_returns' = o.daily_returns
              /\ latest_price' = o.latest_price
              /\ total_return' = o.total_return
              /\ volatility_sq' = o.volatility_sq
              /\ metrics' = o.metrics
              /\ notice' = o.notice
              /\ caught' = o.caught
    /\ pc' = "portfolio"
    /\ UNCHANGED <<today, pandas_pad, ticker, months, sector_cache, runs, portfolioVars>>

\* ------------------------------------------------------ portfolio analysis
\* Faulty variant of sector_returns_of: the missing returns left in place
sector_returns_unfilled(frame, pad) ==
    [j \in 1..Len(frame) |-> pct_change(frame[j], pad)]

\* adj_close_sector.pct_change().fillna(0), column by column
sector_returns_of(frame, pad) ==
    [j \in 1..Len(frame) |-> fillna(pct_change(frame[j], pad))]

\* Faulty variant of Broadcasts: the weights cut to the columns present
BroadcastsTruncated(frame, w) == Len(frame) <= Len(w)

\* sector_returns * weights is defined when there is one weight per column
Broadcasts(frame, w) == Len(frame) = Len(w)

\* (sector_returns * weights).sum(axis=1)
portfolio_returns_of(sr, w) == RowSum(FrameTimes(sr, w))

\* Faulty variant of cumulative_returns_of: the + 1 forgotten
cumulative_returns_plain(pr) == cumprod(pr)

\* (portfolio_returns + 1).cumprod()
cumulative_returns_of(pr) == cumprod([t \in 1..Len(pr) |-> Add(pr[t], One)])

PortfolioCharts ==
    <<"Cumulative Portfolio Returns", "Portfolio Allocation",
      "Annualized Average Returns", "Stock Correlation Heatmap">>

PortfolioUnset ==
    [sector_data |-> NoTable, adj_close_sector |-> <<>>, sector_returns |-> <<>>,
     portfolio_returns |-> <<>>, cumulative_returns |-> <<>>, charts |-> <<>>,
     unhandled |-> "none"]

\* The module-level statements after the divider, up to the exception that
\* ends the script (if any): nothing catches it.  A single 'Adj Close'
\* column is selected as a Series, which has no axis 1 to sum over.
PortfolioRun(r, pad) ==
    IF r.raised
    THEN [PortfolioUnset EXCEPT !.unhandled = "FetchError"]
    ELSE IF ~r.data.adj
    THEN [PortfolioUnset EXCEPT !.sector_data = r.data, !.unhandled = "KeyError"]
    ELSE LET frame == r.data.price
             sr == sector_returns_of(frame, pad)
             bound == [PortfolioUnset EXCEPT !.sector_data = r.data,
                                             !.adj_close_sector = frame,
                                             !.sector_returns = sr]
         IN  IF Len(frame) = 1 \/ ~Broadcasts(frame, weights)
             THEN [bound EXCEPT !.unhandled = "ValueError"]
             ELSE LET pr == portfolio_returns_of(sr, weights)
                  IN  [bound EXCEPT !.portfolio_returns = pr,
                                    !.cumulative_returns = cumulative_returns_of(pr),
                                    !.charts = PortfolioCharts]

Portfolio(level) ==
    /\ pc = "portfolio"
    /\ \E r \in load_sector(level) :
          LET o == PortfolioRun(r, pandas_pad)
          IN  /\ sector_cache' = r.cache
              /\ sector_data' = o.sector_data
              /\ adj_close_sector' = o.adj_close_sector
              /\ sector_returns' = o.sector_returns
              /\ portfolio_returns' = o.portfolio_returns
              /\ cumulative_returns' = o.cumulative_returns
              /\ charts' = o.charts
              /\ unhandled' = o.unhandled
    /\ pc' = "done"
    /\ UNCHANGED <<today, pandas_pad, ticker, months, stock_cache, runs, mainVars>>

\* ------------------------------------------------------------ the session
Later(day) ==
    {day}
        \cup (IF day[2] <= MaxAdvance THEN {<<day[1], day[2] + 1>>} ELSE {})
        \cup (IF day[1] < MaxAdvance THEN {<<day[1] + 1, day[2]>>} ELSE {})

\* An interaction (or a reload) on the same or a later date: Streamlit runs
\* the script again from the top, with the memo caches kept.
Rerun ==
    /\ pc = "done"
    /\ runs < MaxRuns
    /\ runs' = runs + 1
    /\ ticker' \in {semiconductor_tickers[i] : i \in 1..Len(semiconductor_tickers)}
    /\ months' \in MonthChoices
    /\ today' \in Later(today)
    /\ stock_data' = MainUnset.stock_data
    /\ adj_close' = MainUnset.adj_close
    /\ daily_returns' = MainUnset.daily_returns
    /\ latest_price' = MainUnset.latest_price
    /\ total_return' = MainUnset.total_return
    /\ volatility_sq' = MainUnset.volatility_sq
    /\ metrics' = MainUnset.metrics
    /\ notice' = MainUnset.notice
    /\ caught' = MainUnset.caught
    /\ sector_data' = PortfolioUnset.sector_data
    /\ adj_close_sector' = PortfolioUnset.adj_close_sector
    /\ sector_returns' = PortfolioUnset.sector_returns
    /\ portfolio_returns' = PortfolioUnset.portfolio_returns
    /\ cumulative_returns' = PortfolioUnset.cumulative_returns
    /\ charts' = PortfolioUnset.charts
    /\ unhandled' = PortfolioUnset.unhandled
    /\ pc' = "main"
    /\ UNCHANGED <<pandas_pad, stock_cache, sector_cache>>

Init ==
    /\ today = <<0, 1>>
    /\ pandas_pad \in BOOLEAN
    /\ ticker = semiconductor_tickers[1]
    /\ months = SliderDefault
    /\ stock_cache = <<>>
    /\ sector_cache = <<>>
    /\ pc = "main"
    /\ runs = 1
    /\ stock_data = MainUnset.stock_data
    /\ adj_close = MainUnset.adj_close
    /\ daily_returns = MainUnset.daily_returns
    /\ latest_price = MainUnset.latest_price
    /\ total_return = MainUnset.total_return
    /\ volatility_sq = MainUnset.volatility_sq
    /\ metrics = MainUnset.metrics
    /\ notice = MainUnset.notice
    /\ caught = MainUnset.caught
    /\ sector_data = PortfolioUnset.sector_data
    /\ adj_close_sector = PortfolioUnset.adj_close_sector
    /\ sector_returns = PortfolioUnset.sector_returns
    /\ portfolio_returns = PortfolioUnset.portfolio_returns
    /\ cumulative_returns = PortfolioUnset.cumulative_returns
    /\ charts = PortfolioUnset.charts
    /\ unhandled = PortfolioUnset.unhandled

\* One run of the script over every single-stock table
MainStockAll == MainStock(2)

PortfolioSome == Portfolio(1)

Next == MainStockAll \/ PortfolioSome

Spec == Init /\ [][Next]_vars

\* One run of the script over every sector table
MainStockSome == MainStock(1)

PortfolioAll == Portfolio(2)

NextPortfolio == MainStockSome \/ PortfolioAll

SpecPortfolio == Init /\ [][NextPortfolio]_vars

\* A session of several runs over a few tables
MainStockFew == MainStock(0)

PortfolioFew == Portfolio(0)

NextSession == MainStockFew \/ PortfolioFew \/ Rerun

SpecSession == Init /\ [][NextSession]_vars

\* ------------------------------------------------------------- properties
MainRan == pc \in {"portfolio", "done"}

PortfolioRan == pc = "done"

Rows(t) == IF t.price = <<>> THEN 0 ELSE Len(t.price[1])

NoGaps(v) == \A t \in 1..Len(v) : ~IsNaN(v[t])

NoZero(v) == \A t \in 1..Len(v) : v[t] # Zero

\* price[t] / price[t-1] - 1, from the quotes themselves
SimpleReturn(v, t) == Norm(v[t][1] * v[t - 1][2] - v[t - 1][1] * v[t][2], v[t - 1][1] * v[t][2])

\* the weight the allocation table shows next to an instrument
WeightOf(tk) ==
    weights[CHOOSE i \in 1..Len(semiconductor_tickers) : semiconductor_tickers[i] = tk]

RECURSIVE Product(_, _)
Product(v, t) == IF t = 0 THEN One ELSE Mul(Add(One, v[t]), Product(v, t - 1))

\* C1: every failure of fetching or computing (missing 'Adj Close', empty
\* window, failed fetch, size mismatch) ends as the generic notice, in the
\* main-stock section and in the portfolio section alike: none leaves the
\* script as an unhandled exception.
C1_AllFailuresCaught ==
    /\ (MainRan /\ caught # "none") => notice
    /\ unhandled \notin {"KeyError", "FetchError", "ValueError", "IndexError"}

\* C2: at every date the portfolio return is the sum over the instruments of
\* (the weight the allocation table pairs with that instrument) times (that
\* instrument's return), whatever order the columns arrive in.
C2_WeightsByIdentifier ==
    (PortfolioRan /\ charts # <<>>) =>
        portfolio_returns =
            RowSum(FrameTimes(sector_returns,
                              [j \in 1..Len(sector_returns) |->
                                    WeightOf(sector_data.tickers[j])]))

\* C3: the cumulative return at date t is the product over the dates s <= t
\* of (1 + portfolioReturn[s]): it starts from 1.0 and each value is the
\* previous one times (1 + the portfolio return of that date).
C3_CumulativeIsRunningProduct ==
    (PortfolioRan /\ charts # <<>>) =>
        /\ Len(cumulative_returns) = Len(portfolio_returns)
        /\ \A t \in 1..Len(portfolio_returns) :
              /\ cumulative_returns[t] = Product(portfolio_returns, t)
              /\ cumulative_returns[t] =
                    Mul(IF t = 1 THEN One ELSE cumulative_returns[t - 1],
                        Add(One, portfolio_returns[t]))

\* C3 witness: three dates whose last two portfolio returns are not zero
C3_Witness ==
    /\ PortfolioRan /\ charts # <<>>
    /\ Len(portfolio_returns) = 3
    /\ portfolio_returns[2] # Zero /\ portfolio_returns[3] # Zero
    /\ cumulative_returns[3] # cumulative_returns[2]

\* The quotes of the main stock allow every return: two rows or more, no
\* missing cell, no zero price
MainQuotesFull ==
    /\ MainRan /\ stock_data.adj /\ Rows(stock_data) >= 2
    /\ NoGaps(adj_close.values) /\ NoZero(adj_close.values)

\* The same for every column of the sector table
SectorQuotesFull ==
    /\ PortfolioRan /\ sector_data.adj /\ Rows(sector_data) >= 2
    /\ \A j \in 1..Len(adj_close_sector) :
          NoGaps(adj_close_sector[j]) /\ NoZero(adj_close_sector[j])

\* C4 as stated, read over the tables where price[t] / price[t-1] is defined
\* (no zero price): with n >= 2 rows and no missing cell, daily_returns and
\* every column of sector_returns have n - 1 entries, one per date after the
\* first, the entry of date t being price[t] / price[t-1] - 1.
C4_ReturnsOneShorter ==
    /\ MainQuotesFull =>
          (/\ daily_returns.index = [t \in 1..(Rows(stock_data) - 1) |-> t + 1]
           /\ Len(daily_returns.values) = Rows(stock_data) - 1
           /\ \A t \in 2..Rows(stock_data) :
                 daily_returns.values[t - 1] = SimpleReturn(adj_close.values, t))
    /\ SectorQuotesFull =>
          (\A j \in 1..Len(sector_returns) :
              /\ Len(sector_returns[j]) = Rows(sector_data) - 1
              /\ \A t \in 2..Rows(sector_data) :
                    sector_returns[j][t - 1] = SimpleReturn(adj_close_sector[j], t))

\* C4 amended: with n >= 2 rows, no missing cell and no zero price,
\* daily_returns has n - 1 entries, one per date after the first, and every
\* column of sector_returns has n entries, 0 at the first date; in both the
\* entry of a date t after the first is price[t] / price[t-1] - 1.
C4_ReturnsPerPolicy ==
    /\ MainQuotesFull =>
          (/\ daily_returns.index = [t \in 1..(Rows(stock_data) - 1) |-> t + 1]
           /\ Len(daily_returns.values) = Rows(stock_data) - 1
           /\ \A t \in 2..Rows(stock_data) :
                 daily_returns.values[t - 1] = SimpleReturn(adj_close.values, t))
    /\ SectorQuotesFull =>
          (/\ Len(sector_returns) = Len(adj_close_sector)
           /\ \A j \in 1..Len(sector_returns) :
                 /\ Len(sector_returns[j]) = Rows(sector_data)
                 /\ sector_returns[j][1] = Zero
                 /\ \A t \in 2..Rows(sector_data) :
                       sector_returns[j][t] = SimpleReturn(adj_close_sector[j], t))

\* C4 witness: both sections derived returns from three full rows of quotes
\* that move
C4_Witness ==
    /\ MainQuotesFull /\ Rows(stock_data) = 3
    /\ daily_returns.values[1] # Zero /\ daily_returns.values[2] # Zero
    /\ SectorQuotesFull /\ Rows(sector_data) = 3
    /\ sector_returns[1][2] # Zero /\ sector_returns[1][3] # Zero

\* C5: a fetched price table of zero rows or one row ends in the error
\* notice and shows no latest price, total return or volatility metric.
C5_ShortTableShowsNoStatistic ==
    (MainRan /\ caught # "FetchError" /\ Rows(stock_data) <= 1) =>
        (notice /\ metrics = <<>>)

\* C6: whatever cells of the sector table are missing, no per-instrument
\* return is missing when the weighted sum is taken, and the portfolio
\* return and the cumulative return are defined at every date, also at the
\* dates after a missing cell.
C6_NoMissingAfterFill ==
    (PortfolioRan /\ sector_data.adj) =>
        /\ \A j \in 1..Len(sector_returns) :
              /\ Len(sector_returns[j]) = Rows(sector_data)
              /\ NoGaps(sector_returns[j])
        /\ (charts # <<>>) =>
              (/\ Len(portfolio_returns) = Rows(sector_data)
               /\ Len(cumulative_returns) = Rows(sector_data)
               /\ NoGaps(portfolio_returns)
               /\ NoGaps(cumulative_returns))
        /\ (Len(sector_data.price) = Len(weights)) => charts # <<>>

\* C6 witness: a quote is missing at a date that is not the last, in a table
\* the portfolio was computed from
C6_Witness ==
    /\ PortfolioRan /\ charts # <<>>
    /\ Rows(sector_data) = 3
    /\ \E j \in 1..Len(adj_close_sector) :
          IsNaN(adj_close_sector[j][2]) /\ ~IsNaN(adj_close_sector[j][3])
    /\ IsFinite(cumulative_returns[3])

\* C7: the total return is (last / first - 1) * 100 when the first price is
\* not zero (-1.0 for the prices 100, 110, 99); a first price of zero is a
\* division-by-zero failure: the notice and no total-return metric.
C7_TotalReturnOrDivisionError ==
    (MainRan /\ stock_data.adj /\ Rows(stock_data) >= 1) =>
        LET first == adj_close.values[1]
            last == adj_close.values[Rows(stock_data)]
        IN  /\ (IsFinite(first) /\ IsFinite(last) /\ first # Zero) =>
                  (/\ total_return = Norm((last[1] - first[1]) * Percent, first[1])
                   /\ metrics # <<>>
                   /\ metrics[2].value = Fmt2(total_return))
            /\ (adj_close.values = <<Rat(100), Rat(110), Rat(99)>>) =>
                  total_return = Rat(-1)
            /\ (first = Zero) => (notice /\ caught # "none" /\ metrics = <<>>)

\* C8: a sector table whose number of instrument columns is not the number
\* of weights ends the portfolio computation with an error; no portfolio
\* return series comes out of it.
C8_MismatchFails ==
    /\ (PortfolioRan /\ sector_data.adj /\ Len(sector_data.price) # Len(weights)) =>
          (/\ unhandled = "ValueError"
           /\ portfolio_returns = <<>> /\ cumulative_returns = <<>> /\ charts = <<>>)
    /\ (PortfolioRan /\ unhandled = "none") => Len(sector_data.price) = Len(weights)

\* C8 witness: four columns arrived and the section ended in the error
C8_Witness ==
    /\ PortfolioRan /\ sector_data.adj
    /\ Len(sector_data.price) = 4
    /\ Len(sector_returns) = 4
    /\ unhandled = "ValueError"

\* C9: a constant non-zero price series of at least two rows has total
\* return 0, every daily return 0 and annualized volatility 0.
C9_ConstantSeries ==
    (/\ MainQuotesFull
     /\ \A t \in 1..Rows(stock_data) : adj_close.values[t] = adj_close.values[1]) =>
        (/\ metrics # <<>>
         /\ total_return = Zero
         /\ \A t \in 1..Len(daily_returns.values) : daily_returns.values[t] = Zero
         /\ volatility_sq = Zero)

\* C10: the table a loader returns covers the window from (today - months)
\* to today as of the day of the call, whatever calls came before.
C10_FreshWindow ==
    /\ (MainRan /\ caught # "FetchError") =>
          stock_data.window = Window(today, months)
    /\ (PortfolioRan /\ unhandled # "FetchError") =>
          sector_data.window = Window(today, months)

====
